---- MODULE Spec2Model ----
(***************************************************************************)
(* Model of the asynchronous batch scraper of src/wafflescrapers.py:       *)
(* TokenBucket (rate limiter), json_get_request / json_post_request and    *)
(* AsynchronousScraper (scraping_pass, scrape).                            *)
(*                                                                         *)
(* Python lists / numpy arrays are TLA+ sequences (1-based positions);     *)
(* the values stored in pending_indices / completed_indices are the        *)
(* Python 0-based request indices.  Slot i of the Python output is         *)
(* output[i + 1] here.                                                     *)
(*                                                                         *)
(* A decoded response body is a JSON object, tagged here with the          *)
(* descriptor it answers and the HTTP status it came with.  Token levels   *)
(* are integers.  Time is counted in ticks relative to last_update: a      *)
(* refill after 0 ticks has mu = 0, a refill after more can draw tokens    *)
(* whenever rate > 0.                                                      *)
(***************************************************************************)
EXTENDS Integers, Sequences, FiniteSets, TLC

\* ----------------------------------------------------------------------
\* Bounds of the model
\* ----------------------------------------------------------------------
MaxN == 3          \* largest request list generated by request_func
MaxRetry == 1      \* largest num_retry
MaxTokens == 2     \* largest max_tokens
MaxMint == 2       \* largest number of tokens one Poisson draw yields
MaxElapsed == 1    \* clock ticks since last_update are counted up to this
MaxRuns == 2       \* calls of scrape() on one AsynchronousScraper
MaxLines == 2      \* lines of the proxy list file
MaxRequests == 2   \* length of a request list configured from the pool

VARIABLES
    \* configuration, fixed by the constructor
    N,                  \* len(request_func())
    num_retry,          \* self.num_retry
    max_tokens,         \* self.max_tokens
    rate,               \* self.rate
    backoff,            \* self.backoff (in clock ticks)
    \* AsynchronousScraper fields and scrape() locals
    pending_requests,   \* self.pending_requests
    pending_indices,    \* self.pending_indices
    results,            \* self.results
    completed_requests, \* self.completed_requests
    completed_indices,  \* self.completed_indices
    num_passes,         \* local num_passes of scrape()
    pc,                 \* position of scrape(): "loop", "pass", "done", "raised"
    output,             \* value returned by scrape()
    gen,                \* number of request_func() calls made so far
    \* the TokenBucket of the running pass
    tokens,             \* TokenBucket.tokens
    elapsed,            \* time.monotonic() - TokenBucket.last_update, in ticks
    \* the tasks of the running pass, one per entry of pending_requests
    task,               \* position of each task
    new_results,        \* what each task returned or raised
    sleepers,           \* tasks inside asyncio.sleep(backoff), in wake-up order
    remaining,          \* ticks left of each sleeper's backoff
    order,              \* tasks in the order their network calls settled
    \* history
    attempts,           \* per request index, its outcome in each pass so far
    admitted_pass,      \* debits (admissions) in the running pass
    admitted_total,     \* debits (admissions) in the whole run
    minted_pass,        \* tokens mint_tokens added to the bucket in the running pass
    drawn,              \* new_tokens of the latest mint_tokens call of the running pass
    runs,               \* calls of scrape() made on this object so far
    \* ProxyPool
    proxy_source,       \* the lines of the file at proxy_list_path, split at ':'
    proxy_list,         \* self.proxy_list
    pool_pc,            \* "new", "ready" (constructed) or "raised" (__init__ raised)
    pool_error,         \* the exception __init__ raised, "none" otherwise
    sampled,            \* what the latest random_proxy() call returned
    request_proxies,    \* the 'proxies' entries of the latest configured request list
    verify_pc,          \* verify_ip_addresses: "idle", "running", "returned", "raised"
    verify_i,           \* loop variable i of verify_ip_addresses
    verify_n,           \* local n of verify_ip_addresses
    verify_seen         \* pool positions whose echo response was printed

cfg == <<N, num_retry, max_tokens, rate, backoff>>
scraper == <<pending_requests, pending_indices, results, completed_requests,
             completed_indices, num_passes, pc, output, gen>>
bucket == <<tokens, elapsed>>
tasks == <<task, new_results, sleepers, remaining, order>>
hist == <<attempts, admitted_pass, admitted_total, minted_pass, drawn>>
pool == <<proxy_source, proxy_list, pool_pc, pool_error, sampled,
          request_proxies, verify_pc, verify_i, verify_n, verify_seen>>
vars == <<cfg, scraper, bucket, tasks, hist, runs, pool>>

\* ----------------------------------------------------------------------
\* Values
\* ----------------------------------------------------------------------
\* A request descriptor: entry idx of the list made by the gen-th call of
\* request_func (each call samples fresh proxies).
Descriptor(i, g) == [idx |-> i, gen |-> g]

\* The None marker appended for requests that never succeeded.
None == [kind |-> "none", idx |-> -1, gen |-> 0, status |-> 0]

\* An exception object returned by gather(return_exceptions=True).
Exc == [kind |-> "exc", idx |-> -1, gen |-> 0, status |-> 0]

\* Placeholder for a task that has not produced a result yet.
NoResult == [kind |-> "unset", idx |-> -1, gen |-> 0, status |-> 0]

\* The decoded JSON body the server sends for descriptor req with HTTP status st.
Payload(req, st) == [kind |-> "json", idx |-> req.idx, gen |-> req.gen, status |-> st]

\* What the transport can deliver for one call: a network error, or a
\* response with a status and a body that is JSON or not.
Responses ==
    {[net |-> "error", status |-> 0, json |-> FALSE]} \cup
    [net : {"ok"}, status : {200, 500}, json : BOOLEAN]

\* isinstance(x, Exception)
is_exception(x) == x.kind = "exc"

\* ----------------------------------------------------------------------
\* Helpers for numpy operations
\* ----------------------------------------------------------------------
Min(a, b) == IF a <= b THEN a ELSE b

\* boolean indexing variant: the mask is ignored, every element is kept
SelectMask_all(arr, mask) == arr

\* arr[mask] with a boolean mask of the same length
RECURSIVE SelectMask(_, _)
SelectMask(arr, mask) ==
    IF arr = <<>> THEN <<>>
    ELSE (IF Head(mask) THEN <<Head(arr)>> ELSE <<>>) \o SelectMask(Tail(arr), Tail(mask))

\* integer indexing variant: the first len(idx) entries of arr instead of arr[idx]
TakeIdx_positional(arr, idx) == [k \in 1..Len(idx) |-> arr[k]]

\* arr[idx] with an integer index array (0-based indices)
TakeIdx(arr, idx) == [k \in 1..Len(idx) |-> arr[idx[k] + 1]]

\* request_func variant: the list of the first call is returned again
request_func_cached(n, g) == [k \in 1..n |-> Descriptor(k - 1, 1)]

\* request_func(): the list generated by call number g
request_func(n, g) == [k \in 1..n |-> Descriptor(k - 1, g)]

\* np.arange(n)
arange(n) == [k \in 1..n |-> k - 1]

\* argsort variant: no sorting, the positions as they are
Argsort_identity(arr) == [k \in 1..Len(arr) |-> k - 1]

\* np.argsort(arr): 0-based positions of arr's elements in ascending order
Argsort(arr) ==
    LET rank(j) == Cardinality({m \in 1..Len(arr) :
                        arr[m] < arr[j] \/ (arr[m] = arr[j] /\ m < j)})
    IN [k \in 1..Len(arr) |-> (CHOOSE j \in 1..Len(arr) : rank(j) = k - 1) - 1]

\* ----------------------------------------------------------------------
\* ProxyPool
\* ----------------------------------------------------------------------
\* Lines of a proxy list as downloaded: host:port:user:password
WellFormed ==
    {<<"10.0.0.1", "8080", "alice", "pw1">>, <<"10.0.0.2", "8080", "bob", "pw2">>}

\* Lines that are not proxy records: no ':' at all, or no credentials
Malformed == {<<"junk">>, <<"10.0.0.3", "8080">>}

\* The proxy list files: up to MaxLines lines, each well-formed or not
Sources == UNION {[1..n -> WellFormed \cup Malformed] : n \in 0..MaxLines}

\* list(np.loadtxt(path, dtype=str)): an empty file gives an empty array, a
\* file of one line a 0-d array, which list() cannot iterate (TypeError)
loadtxt_list(src) ==
    IF Len(src) = 1
    THEN [error |-> "TypeError", rows |-> <<>>]
    ELSE [error |-> "none", rows |-> src]

\* 'http://' + ':'.join(x.split(':')[2:]) + '@' + ':'.join(x.split(':')[:2])
ProxyUrl(x) ==
    [scheme |-> "http://",
     auth |-> SubSeq(x, 3, Len(x)),
     host |-> SubSeq(x, 1, Min(2, Len(x)))]

\* {'http': x, 'https': x}
ProxyDict(x) == [http |-> ProxyUrl(x), https |-> ProxyUrl(x)]

\* the proxy list __init__ builds from the rows of the file
BuildProxyList(rows) == [k \in 1..Len(rows) |-> ProxyDict(rows[k])]

\* random_proxy variant: the chosen proxy is taken out of the list
random_proxy_pop(pl, i) ==
    [proxy |-> pl[i],
     proxy_list |-> [k \in 1..(Len(pl) - 1) |-> IF k < i THEN pl[k] ELSE pl[k + 1]]]

\* random_proxy with random_index() = i - 1: the proxy returned and the
\* proxy list afterwards
random_proxy(pl, i) == [proxy |-> pl[i], proxy_list |-> pl]

\* what random_proxy() has returned: nothing yet, a proxy, or a ValueError
\* of random_index() for an empty pool
NoSample == [error |-> "none", value |-> <<>>]

ListSet(seq) == {seq[k] : k \in DOMAIN seq}

\* ----------------------------------------------------------------------
\* TokenBucket
\* ----------------------------------------------------------------------
Rates == {0, 1}      \* rate: no refill, or a positive refill rate
Backoffs == {0, 1}   \* backoff: asyncio.sleep(0), or a sleep of one tick

\* TokenBucket.__init__ variant: the bucket starts empty
new_bucket_tokens_empty(cap) == 0

\* TokenBucket.__init__: self.tokens = max_tokens
new_bucket_tokens(cap) == cap

\* Poisson variant: tokens are drawn although mu = 0
PoissonDraws_ignoring_mu(mu) == 0..MaxMint

\* Poisson variant: a draw that never yields a token
PoissonDraws_never(mu) == {0}

\* stats.poisson(mu).rvs(): 0 when mu = 0, any natural number otherwise
PoissonDraws(mu) == IF mu = 0 THEN {0} ELSE 0..MaxMint

\* mint_tokens variant: the level is not clamped to max_tokens
mint_tokens_unclamped(t, new_tokens, cap) == t + new_tokens

\* mint_tokens: the new level after new_tokens were drawn
mint_tokens(t, new_tokens, cap) == Min(t + new_tokens, cap)

\* loop test variant: an empty bucket is not waited for
NoToken_off_by_one(t) == t < 0

\* the test of the while loop of wait_for_token
NoToken(t) == t < 1

\* One turn of task k inside wait_for_token, from a loop test up to the next
\* suspension: either the bucket is empty (mint, then sleep for backoff), or a
\* token is debited and the network call is issued.  q is the queue of the
\* other sleeping tasks.
wait_for_token(k, q) ==
    IF NoToken(tokens)
    THEN \E new_tokens \in PoissonDraws(elapsed * rate) :
            /\ tokens' = mint_tokens(tokens, new_tokens, max_tokens)
            /\ elapsed' = 0
            /\ drawn' = new_tokens
            /\ minted_pass' = minted_pass + (mint_tokens(tokens, new_tokens, max_tokens) - tokens)
            /\ task' = [task EXCEPT ![k] = "sleep"]
            /\ sleepers' = Append(q, k)
            /\ remaining' = [remaining EXCEPT ![k] = backoff]
            /\ UNCHANGED <<admitted_pass, admitted_total>>
    ELSE /\ tokens' = tokens - 1
         /\ task' = [task EXCEPT ![k] = "inflight"]
         /\ sleepers' = q
         /\ admitted_pass' = admitted_pass + 1
         /\ admitted_total' = admitted_total + 1
         /\ UNCHANGED <<elapsed, remaining, minted_pass, drawn>>

\* ----------------------------------------------------------------------
\* json_get_request / json_post_request
\* ----------------------------------------------------------------------
\* The value a request task ends with: client.get raises on a network error,
\* res.json() raises on a body that is not JSON, and otherwise the decoded
\* body is returned (the status is not looked at).
json_request(resp, req) ==
    IF resp.net = "error" THEN Exc
    ELSE IF ~resp.json THEN Exc
    ELSE Payload(req, resp.status)

\* ----------------------------------------------------------------------
\* AsynchronousScraper
\* ----------------------------------------------------------------------
\* gather variant: results in completion order (as asyncio.as_completed yields them)
gather_completion_order(res, ord) ==
    [raised |-> FALSE, values |-> [k \in 1..Len(res) |-> res[ord[k]]]]

\* gather variant: without return_exceptions=True an exception of a task is raised
gather_raising(res, ord) ==
    [raised |-> \E k \in 1..Len(res) : is_exception(res[k]), values |-> res]

\* asyncio.gather(*tasks, return_exceptions=True): the tasks' results in task
\* order, exceptions included as values; never raises.
gather(res, ord) == [raised |-> FALSE, values |-> res]

\* loop condition variant: the pending list is not looked at
LoopCond_ignore_pending(n_pending, n_passes, n_retry) == n_passes <= n_retry

\* loop condition variant: one pass too many
LoopCond_extra_pass(n_pending, n_passes, n_retry) ==
    n_pending > 0 /\ n_passes <= n_retry + 1

\* loop condition variant: one pass too few
LoopCond_short(n_pending, n_passes, n_retry) ==
    n_pending > 0 /\ n_passes < n_retry

\* the condition of the while loop of scrape()
LoopCond(n_pending, n_passes, n_retry) == n_pending > 0 /\ n_passes <= n_retry

\* np.array([None]*num_fail)
NoneArray(num_fail) == [k \in 1..num_fail |-> None]

AllStarted == \A j \in DOMAIN task : task[j] # "new"

\* gather variant: returns as soon as one task is done (FIRST_COMPLETED)
AllSettled_first_completed == \E k \in DOMAIN task : task[k] = "settled"

\* await asyncio.gather(*tasks): resumes once every task is done
AllSettled == \A k \in DOMAIN task : task[k] = "settled"

ScraperInit ==
    /\ N \in 0..MaxN
    /\ num_retry \in 0..MaxRetry
    /\ max_tokens \in 0..MaxTokens
    /\ rate \in Rates
    /\ backoff \in Backoffs
    /\ gen = 1
    /\ pending_requests = request_func(N, 1)
    /\ pending_indices = arange(N)
    /\ results = <<>>
    /\ completed_requests = <<>>
    /\ completed_indices = <<>>
    /\ num_passes = 0
    /\ pc = "loop"
    /\ output = <<>>
    /\ tokens = 0
    /\ elapsed = 0
    /\ task = <<>>
    /\ new_results = <<>>
    /\ sleepers = <<>>
    /\ remaining = <<>>
    /\ order = <<>>
    /\ attempts = [i \in 0..(N - 1) |-> <<>>]
    /\ admitted_pass = 0
    /\ admitted_total = 0
    /\ minted_pass = 0
    /\ drawn = 0

\* the proxy list file the batch runs are made with
DefaultSource == <<<<"10.0.0.1", "8080", "alice", "pw1">>, <<"10.0.0.2", "8080", "bob", "pw2">>>>

\* A scraper has been constructed over a pool built from DefaultSource;
\* scrape() is being called for the first time.
Init ==
    /\ ScraperInit
    /\ runs = 1
    /\ proxy_source = DefaultSource
    /\ proxy_list = BuildProxyList(DefaultSource)
    /\ pool_pc = "ready"
    /\ pool_error = "none"
    /\ sampled = NoSample
    /\ request_proxies = <<>>
    /\ verify_pc = "idle"
    /\ verify_i = 0
    /\ verify_n = 0
    /\ verify_seen = <<>>

\* scrape() enters the loop body and scraping_pass() creates the bucket and
\* one task per pending request.
BeginPass ==
    /\ pc = "loop"
    /\ LoopCond(Len(pending_requests), num_passes, num_retry)
    /\ pc' = "pass"
    /\ tokens' = new_bucket_tokens(max_tokens)
    /\ elapsed' = 0
    /\ task' = [k \in 1..Len(pending_requests) |-> "new"]
    /\ new_results' = [k \in 1..Len(pending_requests) |-> NoResult]
    /\ sleepers' = <<>>
    /\ remaining' = [k \in 1..Len(pending_requests) |-> 0]
    /\ order' = <<>>
    /\ admitted_pass' = 0
    /\ minted_pass' = 0
    /\ drawn' = 0
    /\ UNCHANGED <<cfg, runs, pool, pending_requests, pending_indices, results,
                   completed_requests, completed_indices, num_passes, output,
                   gen, attempts, admitted_total>>

\* The first turn of task k.  The event loop runs the tasks' first turns in
\* the order ensure_future created them.
Start(k) ==
    /\ pc = "pass"
    /\ k \in DOMAIN task
    /\ task[k] = "new"
    /\ \A j \in 1..(k - 1) : task[j] # "new"
    /\ wait_for_token(k, sleepers)
    /\ UNCHANGED <<cfg, runs, pool, scraper, new_results, order, attempts>>

\* asyncio.sleep(backoff) of task k is over and the loop test is made again.
Wake(k) ==
    /\ pc = "pass"
    /\ AllStarted
    /\ sleepers # <<>>
    /\ k = Head(sleepers)
    /\ remaining[k] = 0
    /\ wait_for_token(k, Tail(sleepers))
    /\ UNCHANGED <<cfg, runs, pool, scraper, new_results, order, attempts>>

\* The network call of task k settles with some response.
Settle(k) ==
    /\ pc = "pass"
    /\ AllStarted
    /\ k \in DOMAIN task
    /\ task[k] = "inflight"
    /\ \E resp \in Responses :
         LET res == json_request(resp, pending_requests[k])
             i == pending_requests[k].idx
         IN /\ new_results' = [new_results EXCEPT ![k] = res]
            /\ attempts' = [attempts EXCEPT ![i] = Append(@, res)]
    /\ task' = [task EXCEPT ![k] = "settled"]
    /\ order' = Append(order, k)
    /\ UNCHANGED <<cfg, runs, pool, scraper, bucket, sleepers, remaining,
                   admitted_pass, admitted_total, minted_pass, drawn>>

\* The monotonic clock advances by one tick.
Tick ==
    /\ pc = "pass"
    /\ \/ elapsed < MaxElapsed
       \/ \E k \in DOMAIN task : task[k] = "sleep" /\ remaining[k] > 0
    /\ elapsed' = Min(elapsed + 1, MaxElapsed)
    /\ remaining' = [k \in DOMAIN remaining |->
                        IF remaining[k] > 0 THEN remaining[k] - 1 ELSE 0]
    /\ UNCHANGED <<cfg, runs, pool, scraper, tokens, task, new_results, sleepers, order, hist>>

\* gather returns once every task is done; scrape() partitions the results,
\* regenerates the request list and counts the pass.
EndPass ==
    /\ pc = "pass"
    /\ AllSettled
    /\ LET g == gather(new_results, order)
       IN IF g.raised
          THEN /\ pc' = "raised"
               /\ UNCHANGED <<pending_requests, pending_indices, results,
                              completed_requests, completed_indices,
                              num_passes, gen>>
          ELSE LET is_exc == [k \in 1..Len(g.values) |-> is_exception(g.values[k])]
                   not_exc == [k \in 1..Len(g.values) |-> ~is_exc[k]]
                   still_pending == SelectMask(pending_indices, is_exc)
                   request_list == request_func(N, gen + 1)
               IN /\ results' = results \o SelectMask(g.values, not_exc)
                  /\ completed_requests' =
                        completed_requests \o SelectMask(pending_requests, not_exc)
                  /\ completed_indices' =
                        completed_indices \o SelectMask(pending_indices, not_exc)
                  /\ pending_indices' = still_pending
                  /\ gen' = gen + 1
                  /\ pending_requests' = TakeIdx(request_list, still_pending)
                  /\ num_passes' = num_passes + 1
                  /\ pc' = "loop"
    /\ UNCHANGED <<cfg, runs, pool, output, bucket, tasks, hist>>

\* The loop is left: the still pending indices get None, and the results are
\* returned in the order of their indices.
Finalize ==
    /\ pc = "loop"
    /\ ~LoopCond(Len(pending_requests), num_passes, num_retry)
    /\ LET num_fail == Len(pending_indices)
           all_results == results \o NoneArray(num_fail)
           all_indices == completed_indices \o pending_indices
           req_order == Argsort(all_indices)
       IN /\ results' = all_results
          /\ completed_indices' = all_indices
          /\ output' = TakeIdx(all_results, req_order)
    /\ pc' = "done"
    /\ UNCHANGED <<cfg, runs, pool, pending_requests, pending_indices, completed_requests,
                   num_passes, gen, bucket, tasks, hist>>

Next ==
    \/ BeginPass
    \/ \E k \in 1..MaxN : Start(k)
    \/ \E k \in 1..MaxN : Wake(k)
    \/ \E k \in 1..MaxN : Settle(k)
    \/ Tick
    \/ EndPass
    \/ Finalize

Spec == Init /\ [][Next]_vars

\* ----------------------------------------------------------------------
\* A second call of scrape() on the same AsynchronousScraper
\* ----------------------------------------------------------------------
\* scrape() is called again after it has returned: the local num_passes
\* starts at 0, the fields of the object are as the last call left them.
ScrapeAgain ==
    /\ pc = "done"
    /\ runs < MaxRuns
    /\ runs' = runs + 1
    /\ num_passes' = 0
    /\ pc' = "loop"
    /\ UNCHANGED <<cfg, pool, pending_requests, pending_indices, results,
                   completed_requests, completed_indices, output, gen,
                   bucket, tasks, hist>>

RerunNext == Next \/ ScrapeAgain

RerunSpec == Init /\ [][RerunNext]_vars

\* ----------------------------------------------------------------------
\* ProxyPool operations
\* ----------------------------------------------------------------------
\* No scraper is involved: a proxy list file is given and no pool is built.
PoolInit ==
    /\ ScraperInit
    /\ N = 0
    /\ num_retry = 0
    /\ max_tokens = 0
    /\ rate = 0
    /\ backoff = 0
    /\ runs = 0
    /\ proxy_source \in Sources
    /\ proxy_list = <<>>
    /\ pool_pc = "new"
    /\ pool_error = "none"
    /\ sampled = NoSample
    /\ request_proxies = <<>>
    /\ verify_pc = "idle"
    /\ verify_i = 0
    /\ verify_n = 0
    /\ verify_seen = <<>>

PoolIdle == pool_pc = "ready" /\ verify_pc # "running"

\* ProxyPool.__init__
Construct ==
    /\ pool_pc = "new"
    /\ LET loaded == loadtxt_list(proxy_source)
       IN IF loaded.error # "none"
          THEN /\ pool_pc' = "raised"
               /\ pool_error' = loaded.error
               /\ UNCHANGED proxy_list
          ELSE /\ pool_pc' = "ready"
               /\ pool_error' = "none"
               /\ proxy_list' = BuildProxyList(loaded.rows)
    /\ UNCHANGED <<cfg, scraper, bucket, tasks, hist, runs, proxy_source, sampled,
                   request_proxies, verify_pc, verify_i, verify_n, verify_seen>>

\* ProxyPool.random_proxy; random_index() raises for an empty pool
RandomProxy ==
    /\ PoolIdle
    /\ IF Len(proxy_list) = 0
       THEN /\ sampled' = [error |-> "ValueError", value |-> <<>>]
            /\ UNCHANGED proxy_list
       ELSE \E i \in 1..Len(proxy_list) :
               LET r == random_proxy(proxy_list, i)
               IN /\ sampled' = [error |-> "none", value |-> <<r.proxy>>]
                  /\ proxy_list' = r.proxy_list
    /\ UNCHANGED <<cfg, scraper, bucket, tasks, hist, runs, proxy_source, pool_pc,
                   pool_error, request_proxies, verify_pc, verify_i, verify_n,
                   verify_seen>>

\* configure_wafflehouse_requests / configure_mcdonalds_requests (the
\* request_func of a scraper): a request list of n entries, each with a
\* proxy from random_proxy()
ConfigureRequests(n) ==
    /\ PoolIdle
    /\ IF Len(proxy_list) = 0
       THEN /\ sampled' = [error |-> "ValueError", value |-> <<>>]
            /\ UNCHANGED <<proxy_list, request_proxies>>
       ELSE \E f \in [1..n -> 1..Len(proxy_list)] :
               /\ request_proxies' = [k \in 1..n |-> random_proxy(proxy_list, f[k]).proxy]
               /\ sampled' = [error |-> "none",
                              value |-> <<random_proxy(proxy_list, f[n]).proxy>>]
               /\ proxy_list' = random_proxy(proxy_list, f[n]).proxy_list
    /\ UNCHANGED <<cfg, scraper, bucket, tasks, hist, runs, proxy_source, pool_pc,
                   pool_error, verify_pc, verify_i, verify_n, verify_seen>>

\* verify_ip_addresses(sleep_seconds, nmax) is called: n = min(nmax, len)
VerifyBegin(nmax) ==
    /\ PoolIdle
    /\ verify_pc' = "running"
    /\ verify_n' = Min(nmax, Len(proxy_list))
    /\ verify_i' = 0
    /\ verify_seen' = <<>>
    /\ UNCHANGED <<cfg, scraper, bucket, tasks, hist, runs, proxy_source, proxy_list,
                   pool_pc, pool_error, sampled, request_proxies>>

\* One iteration of the loop of verify_ip_addresses: requests.get through
\* proxy_list[i] answers and the text is printed, or it raises and the
\* exception leaves verify_ip_addresses.
VerifyStep ==
    /\ pool_pc = "ready"
    /\ verify_pc = "running"
    /\ verify_i < verify_n
    /\ \E echo \in {"answer", "error"} :
          IF echo = "error"
          THEN /\ verify_pc' = "raised"
               /\ UNCHANGED <<verify_i, verify_seen>>
          ELSE /\ verify_seen' = Append(verify_seen, verify_i)
               /\ verify_i' = verify_i + 1
               /\ UNCHANGED verify_pc
    /\ UNCHANGED <<cfg, scraper, bucket, tasks, hist, runs, proxy_source, proxy_list,
                   pool_pc, pool_error, sampled, request_proxies, verify_n>>

\* The loop of verify_ip_addresses is over: return(None)
VerifyReturn ==
    /\ pool_pc = "ready"
    /\ verify_pc = "running"
    /\ verify_i = verify_n
    /\ verify_pc' = "returned"
    /\ UNCHANGED <<cfg, scraper, bucket, tasks, hist, runs, proxy_source, proxy_list,
                   pool_pc, pool_error, sampled, request_proxies, verify_i, verify_n,
                   verify_seen>>

PoolNext ==
    \/ Construct
    \/ RandomProxy
    \/ \E n \in 1..MaxRequests : ConfigureRequests(n)
    \/ \E nmax \in 0..(MaxLines + 1) : VerifyBegin(nmax)
    \/ VerifyStep
    \/ VerifyReturn

PoolSpec == PoolInit /\ [][PoolNext]_vars

\* ----------------------------------------------------------------------
\* Fairness: every enabled step of the event loop is eventually taken (every
\* network call settles, every timer fires, the clock advances), and a bucket
\* that is refilled at a positive rate eventually gets a token.
\* ----------------------------------------------------------------------
MintToken == (\E k \in 1..MaxN : Start(k) \/ Wake(k)) /\ tokens' > tokens

Fairness ==
    /\ WF_vars(BeginPass)
    /\ WF_vars(\E k \in 1..MaxN : Start(k))
    /\ WF_vars(\E k \in 1..MaxN : Wake(k))
    /\ WF_vars(\E k \in 1..MaxN : Settle(k))
    /\ WF_vars(Tick)
    /\ WF_vars(EndPass)
    /\ WF_vars(Finalize)
    /\ SF_vars(MintToken)

FairSpec == Spec /\ Fairness

\* A scraper without retries whose bucket holds at least one token when full
\* and is refilled at a positive rate: scrape() makes one pass.
PassInit == Init /\ num_retry = 0 /\ max_tokens >= 1 /\ rate > 0

PassFairSpec == PassInit /\ [][Next]_vars /\ Fairness

\* ----------------------------------------------------------------------
\* Properties
\* ----------------------------------------------------------------------
Indices == 0..(N - 1)

\* number of calls of scraping_pass so far
PassesStarted == num_passes + (IF pc = "pass" THEN 1 ELSE 0)

\* request i raised in every pass it was dispatched in
AlwaysFailed(i) == \A p \in 1..Len(attempts[i]) : is_exception(attempts[i][p])

\* the tasks of the running pass whose network call has been issued
Issued == {k \in DOMAIN task : task[k] \in {"inflight", "settled"}}

\* C1: when scrape() returns, the list has length N and slot i holds either
\* the None marker or a payload that was returned for request i, never the
\* payload of another index.
C1_IndexFidelity ==
    pc = "done" =>
        /\ Len(output) = N
        /\ \A i \in Indices :
              \/ output[i + 1] = None
              \/ output[i + 1].kind = "json" /\ output[i + 1].idx = i

\* C1 witness: a finished run in which the last pass completed out of task
\* order and the completed indices were collected out of index order.
C1_Witness ==
    /\ pc = "done"
    /\ N >= 3
    /\ \E a, b \in DOMAIN order : a < b /\ order[a] > order[b]
    /\ \E a, b \in DOMAIN completed_indices :
          a < b /\ completed_indices[a] > completed_indices[b]
    /\ \E i \in Indices : output[i + 1].kind = "json"

\* C2: when scrape() returns, every index 0..N-1 occurs exactly once among the
\* merged indices, and slot i holds None exactly when request i failed in
\* every pass that was run; otherwise it holds the payload of the (single,
\* last) pass in which request i succeeded.
C2_ExactlyOnce ==
    pc = "done" =>
        /\ Len(completed_indices) = N
        /\ \A i \in Indices :
              Cardinality({k \in DOMAIN completed_indices : completed_indices[k] = i}) = 1
        /\ Len(output) = N
        /\ \A i \in Indices :
              IF AlwaysFailed(i)
              THEN output[i + 1] = None /\ Len(attempts[i]) = num_passes
              ELSE /\ output[i + 1] = attempts[i][Len(attempts[i])]
                   /\ ~is_exception(attempts[i][Len(attempts[i])])
                   /\ \A p \in 1..(Len(attempts[i]) - 1) : is_exception(attempts[i][p])

\* C2 witness: N = 3, retry budget 1, one index failed both passes: two
\* payloads and exactly one marker, at that index.
C2_Witness ==
    /\ pc = "done"
    /\ N = 3
    /\ num_retry = 1
    /\ num_passes = 2
    /\ \E i \in Indices :
          /\ attempts[i] = <<Exc, Exc>>
          /\ output[i + 1] = None
          /\ \A j \in Indices \ {i} : output[j + 1].kind = "json"

\* C3: the number of dispatch passes never exceeds num_retry + 1.
C3_RetryBound == PassesStarted <= num_retry + 1

\* C3 witness: the last pass the budget allows is running after a retry.
C3_Witness ==
    /\ pc = "pass"
    /\ num_retry >= 1
    /\ num_passes = num_retry
    /\ PassesStarted = num_retry + 1

\* C4: the batch run eventually returns, for every request list, retry budget
\* and bucket configuration, provided every network call settles.
C4_Termination == <>(pc = "done")

\* C5: a failing request never aborts the pass or the batch: scrape() never
\* raises, after every pass each request has its own outcome for every pass
\* in which it was pending (failures up to at most one final success), exactly
\* the requests that failed stay pending, and the returned list has N slots.
C5_FailureIsolated ==
    /\ pc # "raised"
    /\ pc \in {"loop", "done"} =>
          \A i \in Indices :
              /\ \A p \in 1..(Len(attempts[i]) - 1) : is_exception(attempts[i][p])
              /\ IF AlwaysFailed(i)
                 THEN Len(attempts[i]) = num_passes
                 ELSE Len(attempts[i]) <= num_passes
    /\ pc = "loop" =>
          {pending_indices[k] : k \in DOMAIN pending_indices}
              = {i \in Indices : AlwaysFailed(i)}
    /\ pc = "done" => Len(output) = N

\* C5 witness: a pass has ended in which one request failed and another one
\* succeeded.
C5_Witness ==
    /\ pc = "loop"
    /\ num_passes = 1
    /\ \E i, j \in Indices :
          /\ attempts[i] = <<Exc>>
          /\ Len(attempts[j]) = 1
          /\ attempts[j][1].kind = "json"
    /\ Len(pending_indices) >= 1
    /\ Len(results) >= 1

\* C6: a response with a non-success status or a body that is not JSON is a
\* failure: it is never merged into the completed results (every merged
\* payload comes from a response with a success status).
C6_NonSuccessIsFailure ==
    \A k \in DOMAIN results : results[k] # None => results[k].status = 200

\* C7: unless some request failed in all num_retry + 1 passes, the returned
\* list holds N payloads and no None marker; a request that would succeed
\* within the budget is retried until it does.
C7_AllResolved ==
    pc = "done" =>
        ((\A i \in Indices : ~(AlwaysFailed(i) /\ Len(attempts[i]) = num_retry + 1))
            => /\ Len(output) = N
               /\ \A i \in Indices : output[i + 1].kind = "json")

\* C7 witness: a finished run of at least two requests in which a request
\* succeeded only on a retry and no slot is None.
C7_Witness ==
    /\ pc = "done"
    /\ N >= 2
    /\ num_passes >= 2
    /\ \E i \in Indices : Len(attempts[i]) = 2 /\ ~AlwaysFailed(i)
    /\ \A i \in Indices : output[i + 1].kind = "json"

\* C8: a task's network call is issued only in a step that debits a token:
\* the level is >= 1 before the step and exactly 1 lower after it, and no
\* other task is admitted by the same step; the level is lowered by nothing
\* else.
C8_Admission ==
    [][(pc = "pass" /\ pc' = "pass") =>
          /\ \A k \in DOMAIN task :
                (task[k] \in {"new", "sleep"} /\ task'[k] \in {"inflight", "settled"})
                    => /\ tokens >= 1
                       /\ tokens' = tokens - 1
                       /\ admitted_pass' = admitted_pass + 1
                       /\ \A j \in DOMAIN task \ {k} : task'[j] = task[j]
          /\ tokens' < tokens =>
                \E k \in DOMAIN task :
                    task[k] \in {"new", "sleep"} /\ task'[k] = "inflight"
          /\ Cardinality(Issued) = admitted_pass
      ]_vars

\* C8 witness: a task was admitted on a minted token while another task
\* is still waiting for one.
C8_Witness ==
    /\ pc = "pass"
    /\ max_tokens >= 1
    /\ admitted_pass > max_tokens
    /\ minted_pass >= 1
    /\ \E k \in DOMAIN task : task[k] = "sleep"

\* C9: during a pass the bucket level stays within 0..max_tokens.
C9_TokensInRange == pc = "pass" => (0 <= tokens /\ tokens <= max_tokens)

\* C9 witness: the latest refill drew more tokens than the bucket holds and
\* the level was clamped to max_tokens, while tasks wait.
C9_Witness ==
    /\ pc = "pass"
    /\ max_tokens >= 1
    /\ drawn > max_tokens
    /\ tokens = max_tokens
    /\ \E k \in DOMAIN task : task[k] = "sleep"

\* C10 as claimed: with max_tokens = 1 and rate = 0 at most one admission
\* happens in the whole run, counted across all passes.
C10_OneAdmissionEver ==
    (max_tokens = 1 /\ rate = 0) => admitted_total <= 1

\* C10 amended: with max_tokens = 1 and rate = 0 at most one request is
\* admitted in each pass; the admissions of the run are at most one per pass
\* started, and they are all of one request index.
C10_OneAdmissionPerPass ==
    (max_tokens = 1 /\ rate = 0) =>
        /\ admitted_pass <= 1
        /\ pc = "pass" => Cardinality(Issued) <= 1
        /\ admitted_total <= PassesStarted
        /\ Cardinality({i \in Indices : Len(attempts[i]) > 0}
              \cup {pending_requests[k].idx : k \in
                        (IF pc = "pass" THEN Issued ELSE {})}) <= 1

\* C10 witness: capacity 1, no refill, the retry pass has admitted the one
\* request again: the second admission of the run.
C10_Witness ==
    /\ max_tokens = 1
    /\ rate = 0
    /\ pc = "pass"
    /\ num_passes = 1
    /\ admitted_pass = 1
    /\ admitted_total = 2

\* C11 as claimed: with max_tokens = 1, rate = 0 and N >= 2 the run eventually
\* returns an output in which the requests that got no token hold None.
C11_BlockedSurfaceAsNone ==
    (max_tokens = 1 /\ rate = 0 /\ N >= 2) =>
        <>(pc = "done" /\ Len(output) = N /\ \E i \in Indices : output[i + 1] = None)

\* the largest number of passes any request was dispatched in
LastDispatch ==
    IF N = 0 THEN 0
    ELSE CHOOSE m \in 0..(num_retry + 1) :
            /\ \A i \in Indices : Len(attempts[i]) <= m
            /\ \E i \in Indices : Len(attempts[i]) = m

\* C12: no pass is dispatched for an empty pending list, and when scrape()
\* returns num_passes is the number of the pass in which the last request
\* succeeded if nothing is pending, and num_retry + 1 otherwise.
C12_PassCount ==
    /\ pc = "pass" => Len(task) > 0
    /\ pc = "done" =>
          IF pending_indices = <<>>
          THEN num_passes = LastDispatch
          ELSE num_passes = num_retry + 1

\* C12 witness: every request had succeeded after the first pass and the run
\* returned with one pass although the budget allowed another one.
C12_Witness ==
    /\ pc = "done"
    /\ N >= 2
    /\ num_retry >= 1
    /\ num_passes = 1
    /\ pending_indices = <<>>
    /\ \A i \in Indices : Len(attempts[i]) = 1

\* C13: passes never overlap: outside a pass every task is settled, a pass
\* ends only in a step that finds every task settled, and while pass p + 1
\* runs every request has its outcome of each earlier pass it was pending in.
C13_PassBarrier ==
    [][/\ pc # "pass" => \A k \in DOMAIN task : task[k] = "settled"
       /\ (pc = "pass" /\ pc' # "pass") => \A k \in DOMAIN task : task[k] = "settled"
       /\ pc = "pass" =>
             \A i \in Indices :
                 \/ ~AlwaysFailed(i)
                 \/ Len(attempts[i]) >= num_passes
      ]_vars

\* C13 witness: a request of the second pass is in flight and every request
\* has its outcome of the first pass.
C13_Witness ==
    /\ pc = "pass"
    /\ num_passes = 1
    /\ \E k \in DOMAIN task : task[k] = "inflight"
    /\ \A i \in Indices : Len(attempts[i]) >= 1
    /\ N >= 2

\* C14 as claimed: when a task is admitted, every task before it in the
\* pending list has been admitted already.
C14_FIFO ==
    [][(pc = "pass" /\ pc' = "pass") =>
          \A a, b \in DOMAIN task :
              (a < b /\ task[b] \in {"new", "sleep"} /\ task'[b] = "inflight")
                  => task'[a] \in {"inflight", "settled"}
      ]_vars

\* C14 amended: the tasks make their first token check in pending-list order,
\* and a task among the first max_tokens entries of the pending list is
\* admitted no later than any task after it; a task that has to wait can be
\* overtaken.
C14_FirstChecksInOrder ==
    [][(pc = "pass" /\ pc' = "pass") =>
          /\ \A a, b \in DOMAIN task :
                (a < b /\ task'[b] # "new") => task'[a] # "new"
          /\ \A a, b \in DOMAIN task :
                (a < b /\ a <= max_tokens
                   /\ task[b] \in {"new", "sleep"} /\ task'[b] = "inflight")
                    => task'[a] \in {"inflight", "settled"}
      ]_vars

\* C14 witness: a waiting task has been overtaken: it sleeps while a task
\* after it in the pending list has been admitted.
C14_Witness ==
    /\ pc = "pass"
    /\ max_tokens >= 1
    /\ \E a, b \in DOMAIN task :
          a < b /\ task[a] = "sleep" /\ task[b] \in {"inflight", "settled"}

\* a turn of some task inside wait_for_token (a token check)
CheckStep == \E k \in 1..MaxN : Start(k) \/ Wake(k)

\* C17 as claimed: every token check advances last_update to now.
C17_RefillOnEveryCheck == [][CheckStep => elapsed' = 0]_vars

\* C17 amended: a token check runs the refill step exactly when it finds the
\* level below 1: it then adds the drawn tokens clamped to max_tokens,
\* advances last_update to now and admits nobody; a check that finds the
\* level >= 1 only debits one token and leaves last_update alone.
C17_RefillOnlyWhenEmpty ==
    [][CheckStep =>
          IF tokens < 1
          THEN /\ elapsed' = 0
               /\ tokens' = Min(tokens + drawn', max_tokens)
               /\ admitted_pass' = admitted_pass
          ELSE /\ elapsed' = elapsed
               /\ drawn' = drawn
               /\ tokens' = tokens - 1
               /\ admitted_pass' = admitted_pass + 1
      ]_vars

\* C17 witness: time has passed since last_update, a check has debited a
\* token without a refill, and the next check will again find a token.
C17_Witness ==
    /\ pc = "pass"
    /\ elapsed > 0
    /\ admitted_pass >= 1
    /\ minted_pass = 0
    /\ tokens >= 1
    /\ \E k \in DOMAIN task : task[k] = "new"

PendingSet == {pending_indices[k] : k \in DOMAIN pending_indices}

CompletedSet == {completed_indices[k] : k \in DOMAIN completed_indices}

\* C18 as claimed: pending and completed indices are disjoint in every state,
\* and after termination their union is 0..N-1.
C18_AlwaysDisjoint ==
    /\ PendingSet \cap CompletedSet = {}
    /\ pc = "done" => PendingSet \cup CompletedSet = Indices

\* C18 amended: until scrape() finalizes, pending and completed indices are
\* disjoint and their union is 0..N-1; finalization appends the still pending
\* indices to completed_indices without emptying pending_indices, so after
\* termination completed_indices holds every index and pending_indices still
\* holds the unresolved ones.
C18_DisjointUntilFinalize ==
    /\ pc # "done" =>
          /\ PendingSet \cap CompletedSet = {}
          /\ PendingSet \cup CompletedSet = Indices
    /\ pc = "done" =>
          /\ CompletedSet = Indices
          /\ PendingSet = {i \in Indices : output[i + 1] = None}

\* C18 witness: a finished run with both resolved and unresolved requests.
C18_Witness ==
    /\ pc = "done"
    /\ PendingSet # {}
    /\ PendingSet # Indices

\* C19: the descriptor dispatched for index i in pass p is entry i of the
\* list made by the p-th call of request_func (the call after pass p - 1),
\* the pending list is that list filtered to the pending indices in ascending
\* order, and every outcome of pass p answers a descriptor of generation p.
C19_Regeneration ==
    /\ gen = num_passes + 1
    /\ Len(pending_requests) = Len(pending_indices)
    /\ \A k \in DOMAIN pending_requests :
          pending_requests[k] = Descriptor(pending_indices[k], gen)
    /\ \A a, b \in DOMAIN pending_indices :
          a < b => pending_indices[a] < pending_indices[b]
    /\ \A i \in Indices : \A p \in DOMAIN attempts[i] :
          attempts[i][p].kind = "json" => attempts[i][p].gen = p

\* C19 witness: the second pass has a request in flight whose descriptor is
\* of the second generation, for a pending list that lost an entry.
C19_Witness ==
    /\ pc = "pass"
    /\ num_passes = 1
    /\ Len(pending_indices) >= 1
    /\ Len(pending_indices) < N
    /\ \E k \in DOMAIN task :
          task[k] = "inflight" /\ pending_requests[k].gen = 2

\* a proxy list file that is empty or has a line that is no proxy record
BadSource ==
    \/ proxy_source = <<>>
    \/ \E k \in DOMAIN proxy_source : proxy_source[k] \notin WellFormed

\* C15 as claimed: constructing the pool from an empty or malformed source
\* fails with an error and yields no usable pool: never a pool with zero
\* endpoints or with an endpoint built from a malformed record.
C15_BadSourceRejected ==
    (BadSource /\ pool_pc # "new") =>
        /\ pool_pc = "raised"
        /\ pool_error # "none"

\* C16 as claimed: a second scrape() on the same object again returns
\* exactly N slots, slot i holding None or a payload for request i.
C16_SecondRunAligned ==
    (pc = "done" /\ runs = 2) =>
        /\ Len(output) = N
        /\ \A i \in Indices :
              \/ output[i + 1] = None
              \/ output[i + 1].kind = "json" /\ output[i + 1].idx = i

\* C20: once the pool is constructed no operation changes proxy_list or its
\* length, and every proxy handed out by random_proxy, directly or into a
\* request list, is an entry of proxy_list.
C20_PoolImmutable ==
    [][/\ pool_pc = "ready" =>
             /\ pool_pc' = "ready"
             /\ proxy_list' = proxy_list
             /\ Len(proxy_list') = Len(proxy_list)
       /\ ListSet(sampled'.value) \subseteq ListSet(proxy_list')
       /\ ListSet(request_proxies') \subseteq ListSet(proxy_list')
      ]_vars

\* C20 witness: a pool of two proxies after a sample, a configured request
\* list and a completed verification.
C20_Witness ==
    /\ pool_pc = "ready"
    /\ Len(proxy_list) >= 2
    /\ sampled.value # <<>>
    /\ Len(request_proxies) >= 2
    /\ verify_pc = "returned"
    /\ Len(verify_seen) >= 2

\* C21 as claimed: an echo call that fails inside verify_ip_addresses is not
\* fatal: once verify is over it has returned normally, having probed every
\* selected entry in pool order.
C21_VerifyFailureNotFatal ==
    verify_pc \notin {"idle", "running"} =>
        /\ verify_pc = "returned"
        /\ verify_seen = [k \in 1..verify_n |-> k - 1]

NoDup(seq) == \A a, b \in DOMAIN seq : a # b => seq[a] # seq[b]

\* what C22 says of a single state
DispatchDiscipline ==
    /\ NoDup(pending_indices)
    /\ NoDup(completed_indices)
    /\ \A i \in Indices :
          /\ Len(attempts[i]) <= num_retry + 1
          /\ \A p \in 1..(Len(attempts[i]) - 1) : is_exception(attempts[i][p])
    /\ (pc = "done" /\ N > 0) => \A i \in Indices : Len(attempts[i]) >= 1

\* C22: an index is dispatched at most once per pass and never again after a
\* pass in which it succeeded; over a run every index is dispatched at least
\* once and at most num_retry + 1 times; a payload recorded for an index is
\* never overwritten.
C22_DispatchDiscipline ==
    /\ DispatchDiscipline
    /\ [][/\ DispatchDiscipline'
          /\ \A k \in 1..Len(results) :
                /\ results'[k] = results[k]
                /\ completed_indices'[k] = completed_indices[k]
         ]_vars

\* C22 witness: a finished run in which one request succeeded at once and
\* another failed in the first pass and succeeded in the retry.
C22_Witness ==
    /\ pc = "done"
    /\ num_retry = 1
    /\ \E i, j \in Indices :
          /\ Len(attempts[i]) = 1 /\ ~is_exception(attempts[i][1])
          /\ Len(attempts[j]) = 2 /\ ~is_exception(attempts[j][2])

\* C23: every call of scraping_pass creates a bucket that starts full, with
\* last_update at the start of the pass, whatever the bucket of the previous
\* pass held.
C23_FreshFullBucket ==
    [][BeginPass => (tokens' = max_tokens /\ elapsed' = 0 /\ admitted_pass' = 0)]_vars

\* C23 witness: the retry pass starts with a full bucket of 2 tokens after a
\* first pass that admitted 3 requests, so that its bucket ended below 2.
C23_Witness ==
    /\ pc = "pass"
    /\ num_passes = 1
    /\ \A k \in DOMAIN task : task[k] = "new"
    /\ max_tokens = 2
    /\ tokens = 2
    /\ admitted_total = 3

\* C24: at every point of a pass the number of requests admitted so far in
\* the pass is at most max_tokens plus the tokens minted so far in the pass.
C24_TokenConservation ==
    pc = "pass" => admitted_pass <= max_tokens + minted_pass

\* C24 witness: more requests admitted in a pass than the bucket's capacity,
\* every token of the bucket and every minted token having been spent.
C24_Witness ==
    /\ pc = "pass"
    /\ max_tokens >= 1
    /\ admitted_pass > max_tokens
    /\ admitted_pass = max_tokens + minted_pass

\* a pass is running on a bucket that holds at least one token when full and
\* is refilled at a positive rate
PassOpen == pc = "pass" /\ max_tokens >= 1 /\ rate > 0

\* every request of the running pass has been admitted and has settled
PassServed == pc = "pass" /\ admitted_pass = Len(task) /\ AllSettled

\* C25: with max_tokens >= 1, a positive refill rate that eventually mints a
\* token, and network calls that settle, every request of a pass is
\* eventually admitted, also a waiter whose minted tokens were taken by
\* others while it slept, and the pass completes.
C25_NoStarvation ==
    /\ PassOpen ~> PassServed
    /\ PassServed ~> (pc = "loop")

\* C25 witness: a pass with one token of capacity has served three requests,
\* each of the later two after waiting for a refill.
C25_Witness ==
    /\ PassOpen
    /\ PassServed
    /\ max_tokens = 1
    /\ admitted_pass = 3
    /\ minted_pass = 2

\* C26: at every iteration boundary of the retry loop pending_requests and
\* pending_indices are aligned, and results, completed_requests and
\* completed_indices are aligned, results[k] being a payload obtained for
\* index completed_indices[k].
C26_ParallelArrays ==
    pc = "loop" =>
        /\ Len(pending_requests) = Len(pending_indices)
        /\ \A k \in 1..Len(pending_indices) :
              pending_requests[k].idx = pending_indices[k]
        /\ Len(results) = Len(completed_indices)
        /\ Len(completed_requests) = Len(completed_indices)
        /\ \A k \in 1..Len(completed_indices) :
              /\ results[k].kind = "json"
              /\ results[k].idx = completed_indices[k]
              /\ completed_requests[k].idx = completed_indices[k]
              /\ results[k].gen = completed_requests[k].gen

\* C26 witness: an iteration boundary after a pass in which the first
\* request failed and a later one succeeded.
C26_Witness ==
    /\ pc = "loop"
    /\ num_passes = 1
    /\ Len(pending_indices) >= 1
    /\ Len(completed_indices) >= 1
    /\ pending_indices[1] < completed_indices[1]

====
